---------------------------- MODULE Spec2Model ----------------------------
(***************************************************************************)
(* Model of the band-region geometry of BandPlotter (src/bandplotter.py):  *)
(* the band-gap clipper add_band_gap_rectangle, the continuum overlap      *)
(* resolver add_continuum_bands, and the x-axis handling of plot_bands and *)
(* next_plot.                                                              *)
(*                                                                         *)
(* Numbers.  Frequencies and k-axis positions supplied by the caller are   *)
(* integers.  Every computed coordinate is an exact rational <<n, d>> in   *)
(* lowest terms with d > 0 (floating-point rounding is not modelled).      *)
(* Indices are 0-based as in the source; the accessors X, LL and D         *)
(* translate to TLA+'s 1-based sequences.                                  *)
(*                                                                         *)
(* Rendering (colours, text, axis limits, the matplotlib patch list) is    *)
(* left to matplotlib; the model keeps the polygons each call hands to     *)
(* Axes.add_patch.                                                         *)
(***************************************************************************)
EXTENDS Integers, Sequences, FiniteSets, TLC

VARIABLES
    x_data,             \* self._x_data: None, or the x position of each k-sample
    x_axis_corrected,   \* self._x_axis_corrected
    args,               \* the arrays the caller holds for its next call(s)
    last                \* outcome of the most recent method call

vars == <<x_data, x_axis_corrected, args, last>>

-----------------------------------------------------------------------------
(* Bounds of the model *)

\* largest number of k-samples of the enumerated inputs
MaxK == 3

\* largest frequency value of the enumerated light lines and gap bounds
MaxF == 2

\* largest frequency value of the enumerated continuum tables
MaxD == 1

-----------------------------------------------------------------------------
(* Exact rational arithmetic *)

Abs(n) == IF n < 0 THEN -n ELSE n

RECURSIVE GCD(_, _)
GCD(a, b) == IF b = 0 THEN a ELSE GCD(b, a % b)

\* the result of a division by zero (never produced at the call sites)
NaN == <<0, 0>>

Rat(n, d) ==
    IF d = 0 THEN NaN
    ELSE LET g == GCD(Abs(n), Abs(d))
             s == IF d < 0 THEN -1 ELSE 1
         IN  <<(s * n) \div g, (s * d) \div g>>

R(n) == <<n, 1>>

RAdd(p, q) == Rat(p[1] * q[2] + q[1] * p[2], p[2] * q[2])
RSub(p, q) == Rat(p[1] * q[2] - q[1] * p[2], p[2] * q[2])
RMul(p, q) == Rat(p[1] * q[1], p[2] * q[2])
RLess(p, q) == p[1] * q[2] < q[1] * p[2]
RLeq(p, q) == p[1] * q[2] <= q[1] * p[2]

\* a polygon vertex
Pt(x, y) == <<x, y>>

-----------------------------------------------------------------------------
(* Sequences *)

Reverse(s) == [i \in 1..Len(s) |-> s[Len(s) + 1 - i]]

Last(s) == s[Len(s)]

RECURSIVE SeqMin(_)
SeqMin(s) ==
    IF Len(s) = 1 THEN s[1]
    ELSE LET m == SeqMin(Tail(s)) IN IF s[1] < m THEN s[1] ELSE m

RECURSIVE SeqMax(_)
SeqMax(s) ==
    IF Len(s) = 1 THEN s[1]
    ELSE LET m == SeqMax(Tail(s)) IN IF s[1] > m THEN s[1] ELSE m

\* Python's None for self._x_data and for the light_line argument.  Neither
\* is ever an empty array in the model: plot_bands returns before setting
\* self._x_data for empty band data, and no empty light line is supplied.
None == <<>>

-----------------------------------------------------------------------------
(* utility.get_intersection_knum and utility.get_intersection *)

\* fraction t of the unit interval at which the segment freq_left -> freq_right
\* reaches freq
get_intersection_knum(freq_left, freq_right, freq) ==
    Rat(freq - freq_left, freq_right - freq_left)

\* <<x, f>>: where the segments freq_left1 -> freq_right1 and
\* freq_left2 -> freq_right2 over the unit interval cross
get_intersection(freq_left1, freq_right1, freq_left2, freq_right2) ==
    LET diff1 == freq_right1 - freq_left1
        diff2 == freq_right2 - freq_left2
        x     == Rat(freq_left2 - freq_left1, diff1 - diff2)
    IN  <<x, RAdd(R(freq_left1), RMul(x, R(diff1)))>>

-----------------------------------------------------------------------------
(* add_filled_polygon: the patches handed to the axes *)

\* mutant: the test for an empty point list is missing
add_filled_polygon_unchecked(patches, points) == Append(patches, points)

add_filled_polygon(patches, points) ==
    IF Len(points) = 0 THEN patches ELSE Append(patches, points)

-----------------------------------------------------------------------------
(* 0-based access to the arrays, as in the source *)

X(xd, i) == xd[i + 1]
LL(light_line, i) == light_line[i + 1]
D(data, k, c) == data[k + 1][c + 1]

-----------------------------------------------------------------------------
(* add_band_gap_rectangle *)

\* mutant: a gap up to frequency 0 is let through
gap_refused_lenient(from_freq, to_freq) == from_freq < 0 \/ to_freq < 0

\* the guard refusing a gap that is not to be drawn
gap_refused(from_freq, to_freq) == from_freq < 0 \/ to_freq <= 0

\* mutant: a light line on the upper edge does not count as above
is_above_strict(freq, to_freq) == freq > to_freq

\* the light line is on or over the gap's upper edge
is_above(freq, to_freq) == freq >= to_freq

\* mutant: a light line on the lower edge does not count as below
is_below_strict(freq, from_freq) == freq < from_freq

\* the light line is on or under the gap's lower edge
is_below(freq, from_freq) == freq <= from_freq

\* mutant: the right edge is taken at min(self._x_data) too
gap_rectangle_left_only(xd, from_freq, to_freq) ==
    LET left  == SeqMin(xd)
        right == SeqMin(xd)
    IN  <<Pt(R(left), R(from_freq)), Pt(R(right), R(from_freq)),
          Pt(R(right), R(to_freq)), Pt(R(left), R(to_freq))>>

\* the rectangle drawn when no light line is given
gap_rectangle(xd, from_freq, to_freq) ==
    LET left  == SeqMin(xd)
        right == SeqMax(xd)
    IN  <<Pt(R(left), R(from_freq)), Pt(R(right), R(from_freq)),
          Pt(R(right), R(to_freq)), Pt(R(left), R(to_freq))>>

\* state of the sweep before the loop: the first sample
sweep_start(xd, light_line, from_freq, to_freq) ==
    LET above == is_above(LL(light_line, 0), to_freq)
        below == is_below(LL(light_line, 0), from_freq)
    IN  [above   |-> above,
         below   |-> below,
         points  |-> IF ~below
                     THEN <<Pt(R(X(xd, 0)), R(from_freq)),
                            IF above THEN Pt(R(X(xd, 0)), R(to_freq))
                            ELSE Pt(R(X(xd, 0)), R(LL(light_line, 0)))>>
                     ELSE <<>>,
         patches |-> <<>>,
         raised  |-> FALSE]

\* mutant: the offset x0 of the interval is forgotten
crossing_no_offset(xd, light_line, i, freq) ==
    LET x0  == X(xd, i - 1)
        xdf == X(xd, i) - x0
    IN  Pt(RMul(R(xdf),
               get_intersection_knum(LL(light_line, i - 1),
                                     LL(light_line, i), freq)),
           R(freq))

\* the point where the light line crosses y = freq between samples i-1 and i
crossing(xd, light_line, i, freq) ==
    LET x0  == X(xd, i - 1)
        xdf == X(xd, i) - x0
    IN  Pt(RAdd(R(x0), RMul(R(xdf),
               get_intersection_knum(LL(light_line, i - 1),
                                     LL(light_line, i), freq))),
           R(freq))

\* one pass of the loop body, for sample i >= 1
sweep_step(st, xd, light_line, from_freq, to_freq, i) ==
    IF i >= Len(xd)
    THEN [st EXCEPT !.raised = TRUE]     \* IndexError: self._x_data[i]
    ELSE
    LET prev_below == st.below
        prev_above == st.above
        above == is_above(LL(light_line, i), to_freq)
        below == is_below(LL(light_line, i), from_freq)
        \* transitions to inside
        entered ==
            IF prev_above /\ ~above
            THEN Append(st.points, crossing(xd, light_line, i, to_freq))
            ELSE IF prev_below /\ ~below
            THEN Append(st.points, crossing(xd, light_line, i, from_freq))
            ELSE st.points
    IN  IF ~above /\ ~below
        THEN [st EXCEPT !.above = above, !.below = below,
                        !.points = Append(entered,
                                     Pt(R(X(xd, i)), R(LL(light_line, i))))]
        ELSE IF ~prev_above /\ above
        THEN [st EXCEPT !.above = above, !.below = below,
                        !.points = Append(entered,
                                     crossing(xd, light_line, i, to_freq))]
        ELSE IF ~prev_below /\ below
        THEN [st EXCEPT !.above = above, !.below = below,
                        !.patches = add_filled_polygon(st.patches,
                                     Append(entered,
                                       crossing(xd, light_line, i, from_freq))),
                        !.points = <<>>]
        ELSE [st EXCEPT !.above = above, !.below = below,
                        !.points = entered]

\* the loop: for i in range(1, len(light_line))
RECURSIVE sweep(_, _, _, _, _, _)
sweep(st, xd, light_line, from_freq, to_freq, i) ==
    IF i >= Len(light_line) \/ st.raised THEN st
    ELSE sweep(sweep_step(st, xd, light_line, from_freq, to_freq, i),
               xd, light_line, from_freq, to_freq, i + 1)

\* after the loop: close the polygon at the right side and add it
sweep_finish(st, xd, from_freq, to_freq) ==
    LET right == SeqMax(xd)
        p1 == IF st.above THEN Append(st.points, Pt(R(right), R(to_freq)))
              ELSE st.points
        p2 == IF ~st.below THEN Append(p1, Pt(R(right), R(from_freq)))
              ELSE p1
    IN  IF st.raised THEN st
        ELSE [st EXCEPT !.points = p2,
                        !.patches = add_filled_polygon(st.patches, p2)]

\* what the sweep leaves: the patches added, and whether it raised
swept(st) == [patches |-> st.patches, raised |-> st.raised]

\* the patches add_band_gap_rectangle adds, and whether it raises
band_gap_patches(xd, from_freq, to_freq, light_line) ==
    IF gap_refused(from_freq, to_freq)
    THEN [patches |-> <<>>, raised |-> FALSE]
    ELSE IF xd = None
    THEN [patches |-> <<>>, raised |-> TRUE]     \* TypeError: min(None)
    ELSE IF light_line = None
    THEN [patches |-> add_filled_polygon(<<>>,
                        gap_rectangle(xd, from_freq, to_freq)),
          raised  |-> FALSE]
    ELSE swept(sweep_finish(
                   sweep(sweep_start(xd, light_line, from_freq, to_freq),
                         xd, light_line, from_freq, to_freq, 1),
                   xd, from_freq, to_freq))

-----------------------------------------------------------------------------
(* add_continuum_bands *)

\* data.shape
shape(data) == <<Len(data), Len(data[1])>>

\* a shape test that looks at the rows only
malformed_rows_only(data, numk) == shape(data)[1] # numk

\* the shape test: rows match the k-axis and the columns pair up
malformed(data, numk) == shape(data)[1] # numk \/ shape(data)[2] % 2 # 0

\* an overlap test that takes touching curves for overlapping ones
overlaps_or_touches(bottom, top) == bottom <= top

\* the higher band's bottom is below the lower band's top
overlaps(bottom, top) == bottom < top

\* an assignment that is never made
set_data_skipped(data, k, c, v) == data

\* data[k, c] = v
set_data(data, k, c, v) == [data EXCEPT ![k + 1][c + 1] = v]

\* an intersection recorded at its position within the interval, without the
\* index of the interval
intersection_at_no_index(st, b, k) ==
    LET ipt == get_intersection(st.prev_f, D(st.data, k, 2 * b),
                                D(st.data, k - 1, 2 * b - 1),
                                D(st.data, k, 2 * b - 1))
    IN  <<b, ipt[1], ipt[2]>>

\* the intersection recorded for band b at sample k: (b, ipt[0] + k - 1, ipt[1])
intersection_at(st, b, k) ==
    LET ipt == get_intersection(st.prev_f, D(st.data, k, 2 * b),
                                D(st.data, k - 1, 2 * b - 1),
                                D(st.data, k, 2 * b - 1))
    IN  <<b, RAdd(ipt[1], R(k - 1)), ipt[2]>>

\* the body of the loop over k, for band b >= 1
resolve_sample(st, b, k) ==
    IF overlaps(D(st.data, k, 2 * b), D(st.data, k, 2 * b - 1))
    THEN [intersection_points |->
              IF st.prev_above /\ k # 0
              THEN Append(st.intersection_points, intersection_at(st, b, k))
              ELSE st.intersection_points,
          prev_above |-> FALSE,
          prev_f     |-> D(st.data, k, 2 * b),
          data       |-> set_data(st.data, k, 2 * b, D(st.data, k, 2 * b - 1))]
    ELSE [intersection_points |->
              IF ~st.prev_above /\ k # 0
              THEN Append(st.intersection_points, intersection_at(st, b, k))
              ELSE st.intersection_points,
          prev_above |-> TRUE,
          prev_f     |-> D(st.data, k, 2 * b),
          data       |-> st.data]

\* for k in range(numk)
RECURSIVE resolve_band(_, _, _, _)
resolve_band(st, b, k, numk) ==
    IF k >= numk THEN st
    ELSE resolve_band(resolve_sample(st, b, k), b, k + 1, numk)

\* for b in range(1, numbands), with prev_above and prev_f reset per band
RECURSIVE resolve_bands(_, _, _, _)
resolve_bands(st, b, numbands, numk) ==
    IF b >= numbands THEN st
    ELSE resolve_bands(
             resolve_band([st EXCEPT !.prev_above = FALSE, !.prev_f = 0],
                          b, 0, numk),
             b + 1, numbands, numk)

\* a collection that takes every band's intersection points for band i
band_ipts_all(intersection_points, i) ==
    Reverse([j \in 1..Len(intersection_points) |->
                <<intersection_points[j][2], intersection_points[j][3]>>])

\* the intersection points of band i, as the polygon loop collects them:
\* picked from the end of intersection_points to its start
band_ipts(intersection_points, i) ==
    LET mine == SelectSeq(intersection_points, LAMBDA e : e[1] = i)
    IN  Reverse([j \in 1..Len(mine) |-> <<mine[j][2], mine[j][3]>>])

\* a splice with the weights of the two bracketing samples swapped
spliced_swapped(xd, k, e) ==
    Pt(RAdd(RMul(R(X(xd, k)), RSub(R(k), e[1])),
            RMul(R(X(xd, k - 1)), RAdd(RSub(e[1], R(k)), R(1)))),
       e[2])

\* the vertex spliced in for the intersection (ki, fi) before sample k
spliced(xd, k, e) ==
    Pt(RAdd(RMul(R(X(xd, k - 1)), RSub(R(k), e[1])),
            RMul(R(X(xd, k)), RAdd(RSub(e[1], R(k)), R(1)))),
       e[2])

\* the lower boundary, left to right, from sample k on
RECURSIVE lower_boundary(_, _, _, _, _, _)
lower_boundary(xd, data, i, k, ipts, pts) ==
    IF k >= Len(xd) THEN pts
    ELSE LET due  == SelectSeq(Reverse(ipts), LAMBDA e : RLess(e[1], R(k)))
             rest == SelectSeq(ipts, LAMBDA e : ~RLess(e[1], R(k)))
             ins  == [j \in 1..Len(due) |-> spliced(xd, k, due[j])]
         IN  lower_boundary(xd, data, i, k + 1, rest,
                 Append(pts \o ins, Pt(R(X(xd, k)), R(D(data, k, 2 * i)))))

\* an upper boundary walked left to right
upper_boundary_forward(xd, data, i) ==
    [j \in 1..Len(xd) |-> Pt(R(X(xd, j - 1)), R(D(data, j - 1, 2 * i + 1)))]

\* the upper boundary, right to left
upper_boundary(xd, data, i) ==
    [j \in 1..Len(xd) |->
        Pt(R(X(xd, Len(xd) - j)), R(D(data, Len(xd) - j, 2 * i + 1)))]

\* the polygon of band i
band_polygon(xd, data, i, ipts) ==
    lower_boundary(xd, data, i, 0, ipts, <<>>) \o upper_boundary(xd, data, i)

\* for i in range(numbands): one polygon per band
RECURSIVE band_patches(_, _, _, _, _, _)
band_patches(xd, data, intersection_points, i, numbands, patches) ==
    IF i >= numbands THEN patches
    ELSE band_patches(xd, data,
             SelectSeq(intersection_points, LAMBDA e : e[1] # i),
             i + 1, numbands,
             add_filled_polygon(patches,
                 band_polygon(xd, data, i,
                              band_ipts(intersection_points, i))))

\* the polygons of the resolved (or untouched) table st.data
resolved(xd, st, numbands) ==
    [data |-> st.data,
     intersection_points |-> st.intersection_points,
     patches |-> band_patches(xd, st.data, st.intersection_points,
                              0, numbands, <<>>),
     warned |-> FALSE, raised |-> FALSE]

\* what add_continuum_bands does: the table afterwards, the intersection
\* points it recorded, the patches it adds, whether it warns or raises
continuum_bands(xd, data, prevent_overlapping) ==
    IF xd = None
    THEN [data |-> data, intersection_points |-> <<>>, patches |-> <<>>,
          warned |-> FALSE, raised |-> TRUE]       \* TypeError: len(None)
    ELSE IF malformed(data, Len(xd))
    THEN [data |-> data, intersection_points |-> <<>>, patches |-> <<>>,
          warned |-> TRUE, raised |-> FALSE]
    ELSE LET numk     == Len(xd)
             numbands == shape(data)[2] \div 2
             st0 == [intersection_points |-> <<>>, prev_above |-> FALSE,
                     prev_f |-> 0, data |-> data]
         IN  resolved(xd,
                      IF prevent_overlapping
                      THEN resolve_bands(st0, 1, numbands, numk)
                      ELSE st0,
                      numbands)

-----------------------------------------------------------------------------
(* _calc_corrected_x_values *)

\* the square root of a perfect square (the k-paths of the model move along
\* the axes, so every distance between neighbouring k-vectors is an integer)
Sqrt(n) == CHOOSE r \in 0..n : r * r = n

\* np.sum(np.square(v)) over the first n components of v
RECURSIVE sum_square(_, _)
sum_square(v, n) == IF n = 0 THEN 0 ELSE v[n] * v[n] + sum_square(v, n - 1)

\* Euclidean point distance in 3D space: np.sqrt(np.sum(np.square(p2 - p1)))
point_distance(p1, p2) ==
    Sqrt(sum_square([c \in 1..Len(p1) |-> p2[c] - p1[c]], Len(p1)))

\* k_data[:, :-1]: the kmag column dropped
k_data_vecs(k_data) ==
    [i \in 1..Len(k_data) |-> SubSeq(k_data[i], 1, Len(k_data[i]) - 1)]

\* a step that stores the distance to the previous k-vector alone
next_x_val_no_sum(x_vals, vecs, i) ==
    Append(x_vals, point_distance(vecs[i + 1], vecs[i + 2]))

\* x_vals[i + 1] = point_distance(k, k_data_vecs[i + 1]) + x_vals[i]
next_x_val(x_vals, vecs, i) ==
    Append(x_vals, point_distance(vecs[i + 1], vecs[i + 2]) + x_vals[i + 1])

\* x_vals[0..i], i 0-based
RECURSIVE x_vals_upto(_, _)
x_vals_upto(vecs, i) ==
    IF i = 0 THEN <<0>>
    ELSE next_x_val(x_vals_upto(vecs, i - 1), vecs, i - 1)

calc_corrected_x_values(k_data) ==
    IF Len(k_data) = 0 THEN <<>>
    ELSE x_vals_upto(k_data_vecs(k_data), Len(k_data) - 1)

\* np.arange(n)
arange(n) == [i \in 1..n |-> i - 1]

-----------------------------------------------------------------------------
(* The record of a call: the method, its scalar arguments, the table it  *)
(* was handed as it was before the call, the patches it added to the axes, *)
(* the intersection points it recorded, whether it logged a warning and    *)
(* whether it raised an exception                                          *)

Outcome(op, from_freq, to_freq, prevent_overlapping, data, patches, intersection_points, warned, raised) ==
    [op |-> op, from_freq |-> from_freq, to_freq |-> to_freq,
     prevent_overlapping |-> prevent_overlapping, data |-> data,
     patches |-> patches, intersection_points |-> intersection_points,
     warned |-> warned, raised |-> raised]

NoCall == Outcome("none", 0, 0, FALSE, <<>>, <<>>, <<>>, FALSE, FALSE)

-----------------------------------------------------------------------------
(* The methods *)

next_plot ==
    /\ x_data' = None
    /\ x_axis_corrected' = FALSE
    /\ last' = Outcome("next_plot", 0, 0, FALSE, <<>>, <<>>, <<>>, FALSE, FALSE)
    /\ UNCHANGED args

\* a plot_bands that lets every call choose its own x-axis mode
plot_bands_no_override(k_data, correct_x_axis, int_ticks) ==
    IF Len(k_data) = 0
    THEN /\ last' = Outcome("plot_bands", 0, 0, FALSE, <<>>, <<>>, <<>>, FALSE,
                         FALSE)
         /\ UNCHANGED <<x_data, x_axis_corrected, args>>
    ELSE LET cannot    == correct_x_axis /\ ~x_axis_corrected /\ ~int_ticks
             corrected == IF correct_x_axis /\ ~x_axis_corrected /\ int_ticks
                          THEN TRUE ELSE x_axis_corrected
         IN  /\ x_axis_corrected' = corrected
             /\ x_data' = IF correct_x_axis /\ corrected
                          THEN calc_corrected_x_values(k_data)
                          ELSE arange(Len(k_data))
             /\ last' = Outcome("plot_bands", 0, 0, FALSE, <<>>, <<>>, <<>>,
                                cannot, FALSE)
             /\ UNCHANGED args

\* banddata enters by its number of rows, which is that of k_data;
\* int_ticks: the formatter's tick positions have dtype int32
plot_bands(k_data, correct_x_axis, int_ticks) ==
    IF Len(k_data) = 0
    THEN /\ last' = Outcome("plot_bands", 0, 0, FALSE, <<>>, <<>>, <<>>, FALSE,
                         FALSE)
         /\ UNCHANGED <<x_data, x_axis_corrected, args>>
    ELSE LET overridden == x_data # None /\ correct_x_axis # x_axis_corrected
             correct    == IF overridden THEN x_axis_corrected
                           ELSE correct_x_axis
             cannot     == correct /\ ~x_axis_corrected /\ ~int_ticks
             corrected  == IF correct /\ ~x_axis_corrected /\ int_ticks
                           THEN TRUE ELSE x_axis_corrected
         IN  /\ x_axis_corrected' = corrected
             /\ x_data' = IF correct /\ corrected
                          THEN calc_corrected_x_values(k_data)
                          ELSE arange(Len(k_data))
             /\ last' = Outcome("plot_bands", 0, 0, FALSE, <<>>, <<>>, <<>>,
                                overridden \/ cannot, FALSE)
             /\ UNCHANGED args

\* the effect of add_band_gap_rectangle, given the patches it adds
band_gap_effect(from_freq, to_freq, out) ==
    /\ last' = Outcome("add_band_gap_rectangle", from_freq, to_freq, FALSE,
                       <<>>, out.patches, <<>>, FALSE, out.raised)
    /\ UNCHANGED <<x_data, x_axis_corrected, args>>

add_band_gap_rectangle(from_freq, to_freq, light_line) ==
    band_gap_effect(from_freq, to_freq,
        band_gap_patches(x_data, from_freq, to_freq, light_line))

\* the effect of add_continuum_bands: data is the caller's array args.data,
\* changed in place
continuum_effect(prevent_overlapping, out) ==
    /\ args' = [args EXCEPT !.data = out.data]
    /\ last' = Outcome("add_continuum_bands", 0, 0, prevent_overlapping,
                       args.data, out.patches, out.intersection_points,
                       out.warned, out.raised)
    /\ UNCHANGED <<x_data, x_axis_corrected>>

add_continuum_bands(prevent_overlapping) ==
    continuum_effect(prevent_overlapping,
        continuum_bands(x_data, args.data, prevent_overlapping))

-----------------------------------------------------------------------------
(* The inputs *)

\* scenario A of the specification
ScenarioA ==
    [k_axis |-> <<0, 1, 2, 3, 4>>, from_freq |-> 1, to_freq |-> 3,
     light_line |-> <<0, 0, 4, 0, 0>>]

Freqs == 0..MaxF

\* the gap bounds tried, among them negative and zero ones
GapFreqs == (-1..MaxF) \cup {ScenarioA.from_freq, ScenarioA.to_freq}

\* the number of k-vectors plotted, 0 before plot_bands has plotted any
numk_of(xd) == IF xd = None THEN 0 ELSE Len(xd)

\* light lines of one frequency per k-vector ("it is important to supply
\* exactly one frequency for each k-vector"), and scenario A's light line,
\* which is longer or shorter than most k-axes
LightLines(numk) ==
    (IF numk <= MaxK THEN [1..numk -> Freqs] ELSE {})
    \cup {None, ScenarioA.light_line}

\* the k-vectors of a path from the origin, each with its kmag column
RECURSIVE KPath(_)
KPath(steps) ==
    IF Len(steps) = 0 THEN << <<0, 0, 0, 0>> >>
    ELSE LET before == KPath(SubSeq(steps, 1, Len(steps) - 1))
             p      == Last(before)
             s      == Last(steps)
         IN  Append(before, <<p[1] + s[1], p[2] + s[2], p[3] + s[3],
                              p[1] + s[1] + p[2] + s[2] + p[3] + s[3]>>)

\* n k-vectors one unit apart
Straight(n) == KPath([j \in 1..(n - 1) |-> <<1, 0, 0>>])

\* n k-vectors in turn two units and one unit apart
Uneven(n) ==
    KPath([j \in 1..(n - 1) |-> IF j % 2 = 1 THEN <<0, 0, 2>> ELSE <<1, 0, 0>>])

\* the k_data arrays tried: no k-vector at all, a straight and an uneven
\* path of up to MaxK k-vectors, and a path as long as scenario A's k-axis
KDatas ==
    {<<>>}
    \cup {Straight(n) : n \in 1..MaxK} \cup {Uneven(n) : n \in 1..MaxK}
    \cup {Straight(Len(ScenarioA.k_axis))}

\* continuum tables of n rows: two bands, the lower one from 0 up to u, the
\* higher one from l up to top
TwoBands(n, top) ==
    {[k \in 1..n |-> <<0, u[k], l[k], top>>] :
        u \in [1..n -> 0..MaxD], l \in [1..n -> 0..top]}

\* three bands: the lowest from 0 up to MaxD, the two higher ones from l and
\* from m up to MaxD
ThreeBands(n) ==
    {[k \in 1..n |-> <<0, MaxD, l[k], MaxD, m[k], MaxD>>] :
        l \in [1..n -> 0..MaxD], m \in [1..n -> 0..MaxD]}

\* one band
OneBand(n) == {[k \in 1..n |-> <<0, u[k]>>] : u \in [1..n -> 0..MaxD]}

\* tables with an odd number of columns
OddColumns(n) ==
    {[k \in 1..n |-> <<u[k]>>] : u \in [1..n -> 0..MaxD]}
    \cup {[k \in 1..n |-> <<0, u[k], u[k]>>] : u \in [1..n -> 0..MaxD]}

\* the tables built for a plot of numk k-vectors: one row per k-vector (or,
\* wrongly, a row more or a row less)
Tables(numk) ==
    (IF 1 <= numk /\ numk <= MaxK
     THEN TwoBands(numk, MaxD) \cup TwoBands(numk, MaxD - 1)
          \cup OneBand(numk) \cup OddColumns(numk)
     ELSE {})
    \cup (IF 1 <= numk /\ numk < MaxK THEN ThreeBands(numk) ELSE {})
    \cup OneBand(numk + 1)
    \cup (IF numk > 1 THEN TwoBands(numk - 1, MaxD) ELSE {})

\* the caller has built no array yet
NoArrays == [kind |-> "none", light_line |-> None, data |-> <<>>]

\* what the caller builds: a light line (or None) for add_band_gap_rectangle,
\* or a table for add_continuum_bands
Inputs(numk) ==
    {[kind |-> "gap", light_line |-> l, data |-> <<>>] : l \in LightLines(numk)}
    \cup {[kind |-> "continuum", light_line |-> None, data |-> t] :
             t \in Tables(numk)}

\* the caller builds the arrays it will pass to the add-methods
caller_builds(input) ==
    /\ args' = input
    /\ last' = NoCall
    /\ UNCHANGED <<x_data, x_axis_corrected>>

-----------------------------------------------------------------------------
(* The specification *)

\* after __init__, which ends in next_plot
Init ==
    /\ x_data = None
    /\ x_axis_corrected = FALSE
    /\ args = NoArrays
    /\ last = NoCall

\* The caller's script: it plots (next_plot, plot_bands), then builds its
\* arrays, then calls the add-methods on them any number of times.  The
\* add-methods change neither self._x_data nor self._x_axis_corrected, so a
\* later plot call would find the plotter as the earlier ones left it.
Next ==
    \/ /\ args.kind = "none"
       /\ next_plot
    \/ /\ args.kind = "none"
       /\ \E k_data \in KDatas, correct_x_axis \in BOOLEAN,
             int_ticks \in BOOLEAN :
              plot_bands(k_data, correct_x_axis, int_ticks)
    \/ /\ args.kind = "none"
       /\ \E input \in Inputs(numk_of(x_data)) : caller_builds(input)
    \/ /\ args.kind = "gap"
       /\ \E from_freq \in GapFreqs, to_freq \in GapFreqs :
              add_band_gap_rectangle(from_freq, to_freq, args.light_line)
    \/ /\ args.kind = "continuum"
       /\ \E prevent_overlapping \in BOOLEAN :
              add_continuum_bands(prevent_overlapping)

Spec == Init /\ [][Next]_vars

-----------------------------------------------------------------------------
(* _calc_corrected_x_values on its own: the k_data arrays it is handed and *)
(* the x-values it returns                                                 *)

\* the steps from one k-vector to the next: along an axis in either
\* direction, none at all, and one across two axes
KSteps ==
    {<<1, 0, 0>>, <<0, 1, 0>>, <<0, 0, 2>>, <<-1, 0, 0>>, <<0, 0, 0>>,
     <<3, 4, 0>>}

\* the values of the kmag column
KMags == {0, 5}

\* the k_data arrays of n rows: a walk from the origin, with any kmag column
RECURSIVE KWalks(_)
KWalks(n) ==
    IF n = 1 THEN {<< <<0, 0, 0, m>> >> : m \in KMags}
    ELSE {Append(w, <<Last(w)[1] + s[1], Last(w)[2] + s[2], Last(w)[3] + s[3],
                      m>>) : w \in KWalks(n - 1), s \in KSteps, m \in KMags}

\* the caller holds a k_data array and has not called yet
DistanceInit ==
    /\ x_data = None
    /\ x_axis_corrected = FALSE
    /\ args \in {[kind |-> "k_data", light_line |-> None, data |-> w] :
                    w \in UNION {KWalks(n) : n \in 1..MaxK}}
    /\ last = NoCall

\* x_vals = self._calc_corrected_x_values(k_data), kept in x_data
corrected_x_values ==
    /\ x_data' = calc_corrected_x_values(args.data)
    /\ last' = Outcome("_calc_corrected_x_values", 0, 0, FALSE, <<>>, <<>>,
                       <<>>, FALSE, FALSE)
    /\ UNCHANGED <<x_axis_corrected, args>>

DistanceNext == corrected_x_values

DistanceSpec == DistanceInit /\ [][DistanceNext]_vars

-----------------------------------------------------------------------------
(* Properties of add_band_gap_rectangle *)

\* the last call was add_band_gap_rectangle
GapCalled == last.op = "add_band_gap_rectangle"

\* ... with a gap 0 <= from_freq < to_freq
ValidGapCalled ==
    GapCalled /\ 0 <= last.from_freq /\ last.from_freq < last.to_freq

\* ... on a plotted k-axis, with a light line of one frequency per k-sample
ClippedGapCalled ==
    /\ ValidGapCalled
    /\ x_data # None
    /\ args.light_line # None
    /\ Len(args.light_line) = Len(x_data)

\* the call of scenario A
ScenarioACalled ==
    /\ GapCalled
    /\ x_data = ScenarioA.k_axis
    /\ args.light_line = ScenarioA.light_line
    /\ last.from_freq = ScenarioA.from_freq
    /\ last.to_freq = ScenarioA.to_freq

\* the x-coordinates of a polygon's vertices
XsOf(polygon) == {polygon[j][1] : j \in 1..Len(polygon)}

\* polygon reaches from x = lo to x = hi (rationals)
Spans(polygon, lo, hi) ==
    /\ lo \in XsOf(polygon)
    /\ hi \in XsOf(polygon)
    /\ \A x \in XsOf(polygon) : RLeq(lo, x) /\ RLeq(x, hi)

\* C1 as the specification states it: scenario A yields two polygons, one
\* from k = 0 to a crossing at x = 1.5 and one from a crossing at x = 2.5 to
\* k = 4.
C1_ScenarioA_TwoPolygons ==
    ScenarioACalled =>
        /\ Len(last.patches) = 2
        /\ Spans(last.patches[1], R(0), Rat(3, 2))
        /\ Spans(last.patches[2], Rat(5, 2), R(4))

\* C1, amended: scenario A (k_axis = [0,1,2,3,4], from_freq = 1, to_freq = 3,
\* light_line = [0,0,4,0,0]) yields exactly one polygon, the part of the gap
\* under the light line's peak: (1.25, 1), (1.75, 3), (2.25, 3), (2.75, 1);
\* the light line crosses from_freq at x = 1.25 and 2.75 and to_freq at
\* x = 1.75 and 2.25.
C1_ScenarioA_OnePolygon ==
    ScenarioACalled =>
        last.patches = << << Pt(Rat(5, 4), R(1)), Pt(Rat(7, 4), R(3)),
                             Pt(Rat(9, 4), R(3)), Pt(Rat(11, 4), R(1)) >> >>

C1_Witness == ScenarioACalled /\ Len(last.patches) = 1 /\ ~last.raised

\* the rectangle over the whole k-axis, from its first to its last position,
\* in the order of the unclipped case
Rectangle(xd, from_freq, to_freq) ==
    <<Pt(R(xd[1]), R(from_freq)), Pt(R(Last(xd)), R(from_freq)),
      Pt(R(Last(xd)), R(to_freq)), Pt(R(xd[1]), R(to_freq))>>

\* the same rectangle as the sweep walks it: up the left edge, along the
\* top, down the right edge
RectangleSwept(xd, from_freq, to_freq) ==
    <<Pt(R(xd[1]), R(from_freq)), Pt(R(xd[1]), R(to_freq)),
      Pt(R(Last(xd)), R(to_freq)), Pt(R(Last(xd)), R(from_freq))>>

LightLineAllAbove ==
    \A k \in 1..Len(args.light_line) : args.light_line[k] >= last.to_freq

LightLineAllBelow ==
    \A k \in 1..Len(args.light_line) : args.light_line[k] <= last.from_freq

\* C2 as the specification states it (P3): a light line at or above to_freq
\* at every k-sample hides the gap: no polygon is emitted.
C2_AllAbove_NoPolygon ==
    (ClippedGapCalled /\ LightLineAllAbove) => last.patches = <<>>

\* C2, amended: for every valid gap and every light line with
\* light_line[k] >= to_freq at every k-sample, exactly one polygon is
\* emitted, the whole gap rectangle (k_first, from_freq), (k_first, to_freq),
\* (k_last, to_freq), (k_last, from_freq): the gap is shown in full.
C2_AllAbove_WholeRectangle ==
    (ClippedGapCalled /\ LightLineAllAbove) =>
        last.patches =
            <<RectangleSwept(x_data, last.from_freq, last.to_freq)>>

C2_Witness ==
    /\ ClippedGapCalled /\ LightLineAllAbove
    /\ Len(x_data) = MaxK
    /\ Len(last.patches) = 1

\* C3 as the specification states it (P4): a light line at or below
\* from_freq at every k-sample leaves the gap unclipped: exactly one polygon,
\* the rectangle (k_first, from_freq), (k_last, from_freq), (k_last, to_freq),
\* (k_first, to_freq).
C3_AllBelow_Rectangle ==
    (ClippedGapCalled /\ LightLineAllBelow) =>
        last.patches = <<Rectangle(x_data, last.from_freq, last.to_freq)>>

\* C3, amended: for every valid gap and every light line with
\* light_line[k] <= from_freq at every k-sample, no polygon is emitted (the
\* gap lies wholly over the light line and is hidden).
C3_AllBelow_NoPolygon ==
    (ClippedGapCalled /\ LightLineAllBelow) =>
        (last.patches = <<>> /\ ~last.raised)

C3_Witness ==
    /\ ClippedGapCalled /\ LightLineAllBelow
    /\ Len(x_data) = MaxK
    /\ last.patches = <<>>

\* the number of maximal runs of consecutive samples of light_line that
\* satisfy P
NumRuns(light_line, P(_)) ==
    Cardinality({k \in 1..Len(light_line) :
                    P(light_line[k]) /\ (k = 1 \/ ~P(light_line[k - 1]))})

\* C4 as the specification states it (P5): the number of polygons equals the
\* number of maximal runs of k-samples at which the light line is strictly
\* between from_freq and to_freq.
C4_Polygons_RunsInside ==
    ClippedGapCalled =>
        Len(last.patches) =
            NumRuns(args.light_line,
                    LAMBDA f : last.from_freq < f /\ f < last.to_freq)

\* C4, amended: for every valid gap and every light line, the number of
\* polygons equals the number of maximal runs of consecutive k-samples at
\* which the light line is strictly above from_freq (inside the band or
\* above it); a light line that rises over from_freq and falls back to it
\* N separate times yields N polygons.
C4_Polygons_RunsOverFrom ==
    ClippedGapCalled =>
        Len(last.patches) =
            NumRuns(args.light_line, LAMBDA f : f > last.from_freq)

C4_Witness ==
    /\ ClippedGapCalled
    /\ Len(last.patches) = 2
    /\ \E k \in 1..Len(args.light_line) : args.light_line[k] >= last.to_freq

\* C5 (P1): for every k-axis and every gap with 0 <= from_freq < to_freq, a
\* call with light_line = None emits exactly one polygon, with the vertices
\* (k_first, from_freq), (k_last, from_freq), (k_last, to_freq),
\* (k_first, to_freq) in this order.
C5_NoLightLine_Rectangle ==
    (ValidGapCalled /\ x_data # None /\ args.light_line = None) =>
        /\ last.patches = <<Rectangle(x_data, last.from_freq, last.to_freq)>>
        /\ ~last.raised

C5_Witness ==
    /\ ValidGapCalled /\ x_data = <<0, 2, 3>> /\ args.light_line = None
    /\ Len(last.patches) = 1

\* C6 (P2): a call with from_freq < 0 or to_freq <= 0 emits no polygon, for
\* any light line (None too), raises no error, and leaves the plotter state
\* and the caller's arrays as they were.
C6_RefusedGap_NoOp ==
    [][(/\ last'.op = "add_band_gap_rectangle"
        /\ (last'.from_freq < 0 \/ last'.to_freq <= 0))
       => (/\ last'.patches = <<>>
           /\ ~last'.raised
           /\ x_data' = x_data
           /\ x_axis_corrected' = x_axis_corrected
           /\ args' = args)]_vars

C6_Witness ==
    /\ GapCalled
    /\ last.from_freq >= 0 /\ last.to_freq = 0
    /\ args.light_line # None
    /\ last.patches = <<>>

-----------------------------------------------------------------------------
(* Properties of add_continuum_bands *)

ContinuumCalled == last.op = "add_continuum_bands"

\* the call passed the shape test: there is a k-axis and the table fits it
WellFormedCalled ==
    /\ ContinuumCalled
    /\ x_data # None
    /\ ~last.warned /\ ~last.raised

\* ribbon 2's lower curve and ribbon 1's upper curve, as the caller passed
\* them (last.data is the table before the call)
Lower2(k) == D(last.data, k, 2)
Upper1(k) == D(last.data, k, 1)

\* the samples at which ribbon 2's lower curve is below ribbon 1's upper curve
Dips == {k \in 0..(Len(last.data) - 1) : Lower2(k) < Upper1(k)}

\* overlap prevention ran on two ribbons that overlap at exactly one sample
TwoRibbonsOneDip ==
    /\ WellFormedCalled
    /\ last.prevent_overlapping
    /\ Len(last.data[1]) = 4
    /\ Cardinality(Dips) = 1

TheDip == CHOOSE k \in Dips : TRUE

\* the lower boundary of the polygon emitted for ribbon 2: what comes before
\* the walk back along the upper curve
LowerBoundary2 ==
    SubSeq(last.patches[2], 1, Len(last.patches[2]) - Len(x_data))

\* the lower-boundary vertex of sample j: ribbon 1's upper value at the dip,
\* ribbon 2's own lower value elsewhere
SampleVertex(j) ==
    Pt(R(X(x_data, j)), R(IF j = TheDip THEN Upper1(j) ELSE Lower2(j)))

\* the point v lies on the line through (x0, y0) and (x1, y1)
OnLine(v, x0, y0, x1, y1) ==
    RMul(RSub(v[2], R(y0)), R(x1 - x0)) = RMul(R(y1 - y0), RSub(v[1], R(x0)))

\* v is the point between samples j and j + 1 where ribbon 2's lower curve
\* and ribbon 1's upper curve, both drawn over the plot's x-positions, cross
IsCrossing(v, j) ==
    /\ 0 <= j /\ j + 1 < Len(x_data)
    /\ RLeq(R(X(x_data, j)), v[1]) /\ RLeq(v[1], R(X(x_data, j + 1)))
    /\ OnLine(v, X(x_data, j), Lower2(j), X(x_data, j + 1), Lower2(j + 1))
    /\ OnLine(v, X(x_data, j), Upper1(j), X(x_data, j + 1), Upper1(j + 1))

\* s without the elements at the positions in S
Without(s, S) ==
    LET keep == SelectSeq([i \in 1..Len(s) |-> i], LAMBDA i : i \notin S)
    IN  [i \in 1..Len(keep) |-> s[keep[i]]]

\* the vertices of s run from left to right
LeftToRight(s) == \A i \in 1..(Len(s) - 1) : RLeq(s[i][1], s[i + 1][1])

\* the lower boundary runs left to right and is made of the sample vertices
\* and, at the positions in S, one crossing for each interval in J
InsertedAt(S, J) ==
    /\ LeftToRight(LowerBoundary2)
    /\ Without(LowerBoundary2, S)
           = [j \in 1..Len(x_data) |-> SampleVertex(j - 1)]
    /\ Cardinality(S) = Cardinality(J)
    /\ \A p \in S : \E j \in J : IsCrossing(LowerBoundary2[p], j)
    /\ \A j \in J : \E p \in S : IsCrossing(LowerBoundary2[p], j)

\* the intervals next to the dip: the one before it and the one after it
DipIntervals ==
    {j \in {TheDip - 1, TheDip} : 0 <= j /\ j + 1 < Len(x_data)}

\* the intervals whose crossing is spliced in: those next to the dip, but
\* for a crossing out of the overlap that falls on the last sample itself
SplicedIntervals ==
    {j \in DipIntervals :
        ~(j = TheDip /\ j + 1 = Len(x_data) - 1
          /\ Lower2(j + 1) = Upper1(j + 1))}

\* C7 as the specification states it: two ribbons overlapping at exactly one
\* sample k give ribbon 2 a lower boundary whose vertex at k is ribbon 1's
\* upper value, with exactly one inserted vertex, at the interpolated
\* x-position of the crossing
C7_OneDip_OneCrossingVertex ==
    TwoRibbonsOneDip =>
        \E S \in SUBSET (1..Len(LowerBoundary2)), j \in DipIntervals :
            InsertedAt(S, {j})

\* C7: two ribbons overlapping at exactly one sample k give ribbon 2 a lower
\* boundary whose vertex at k is ribbon 1's upper value and whose other
\* sample vertices are ribbon 2's own; it has one inserted vertex for the
\* crossing into the overlap (k not the first sample) and one for the
\* crossing out of it (k not the last sample), each at the x-position where
\* the two curves cross, except that a crossing out that falls exactly on
\* the last sample is not inserted
C7_OneDip_CrossingVertices ==
    TwoRibbonsOneDip =>
        \E S \in SUBSET (1..Len(LowerBoundary2)) :
            InsertedAt(S, SplicedIntervals)

\* a dip at an inner sample: two crossings spliced in
C7_Witness ==
    /\ TwoRibbonsOneDip
    /\ TheDip > 0 /\ TheDip < Len(x_data) - 1
    /\ Len(LowerBoundary2) = Len(x_data) + 2

\* C8 as the specification states it: neither add_band_gap_rectangle nor
\* add_continuum_bands changes an element of the caller's k-axis, light line
\* or continuum table
C8_NoInPlaceMutation ==
    [][last'.op \in {"add_band_gap_rectangle", "add_continuum_bands"}
           => (args' = args /\ x_data' = x_data)]_vars

\* the table handed to add_continuum_bands does not fit: its rows are not
\* the k-vectors of the plot, or its columns do not pair up
MalformedTable ==
    /\ args.kind = "continuum"
    /\ x_data # None
    /\ (Len(args.data) # Len(x_data) \/ Len(args.data[1]) % 2 # 0)

\* C9: when the table's row count differs from the k-axis length or its
\* column count is odd, add_continuum_bands logs a warning, adds no polygon,
\* raises no exception and leaves the table and the plotter as they were
C9_Malformed_NoOp ==
    [][(MalformedTable /\ last'.op = "add_continuum_bands")
           => /\ last'.warned
              /\ last'.patches = <<>>
              /\ ~last'.raised
              /\ args' = args
              /\ x_data' = x_data
              /\ x_axis_corrected' = x_axis_corrected]_vars

\* a table with a row too many or too few was refused
C9_Witness ==
    /\ ContinuumCalled
    /\ x_data # None
    /\ Len(last.data) # Len(x_data)
    /\ args.data = last.data
    /\ last.warned /\ last.patches = <<>> /\ ~last.raised

\* every ribbon's lower curve is at or over the upper curve of the ribbon
\* below it, at every sample
NonOverlapping(data) ==
    \A k \in 0..(Len(data) - 1), b \in 1..(Len(data[1]) \div 2 - 1) :
        D(data, k, 2 * b) >= D(data, k, 2 * b - 1)

\* overlap prevention ran on a stack without overlap
NonOverlappingResolved ==
    /\ WellFormedCalled
    /\ last.prevent_overlapping
    /\ NonOverlapping(last.data)

\* what add_continuum_bands does when it is run again on the table as the
\* first run left it
RunAgain == continuum_bands(x_data, args.data, TRUE)

\* C10: on a stack without overlap, a second run of add_continuum_bands with
\* overlap prevention on the same table adds the same polygons as the first,
\* one per ribbon, and neither run records an intersection point
C10_NonOverlapping_Idempotent ==
    NonOverlappingResolved =>
        /\ RunAgain.patches = last.patches
        /\ Len(last.patches) = Len(last.data[1]) \div 2
        /\ last.intersection_points = <<>>
        /\ RunAgain.intersection_points = <<>>

\* two ribbons that touch at one sample and are apart at another
C10_Witness ==
    /\ NonOverlappingResolved
    /\ Len(last.data[1]) = 4
    /\ \E k \in 0..(Len(last.data) - 1) : Lower2(k) = Upper1(k)
    /\ \E k \in 0..(Len(last.data) - 1) : Lower2(k) > Upper1(k)

\* add_continuum_bands ran without overlap prevention on a table that fits
Independent == WellFormedCalled /\ ~last.prevent_overlapping

\* ribbon i on its own: (x[k], lower_i[k]) for k ascending, then
\* (x[k], upper_i[k]) for k descending
RibbonOutline(i) ==
    [j \in 1..(2 * Len(x_data)) |->
        IF j <= Len(x_data)
        THEN Pt(R(X(x_data, j - 1)), R(D(last.data, j - 1, 2 * i)))
        ELSE Pt(R(X(x_data, 2 * Len(x_data) - j)),
                R(D(last.data, 2 * Len(x_data) - j, 2 * i + 1)))]

\* C11: with prevent_overlapping=False every ribbon i is emitted as the
\* polygon of 2*numk vertices (x[k], lower_i[k]), k ascending, then
\* (x[k], upper_i[k]), k descending, whatever the other ribbons' values,
\* and the table is left as it was
C11_OptOut_IndependentRibbons ==
    Independent =>
        /\ Len(last.patches) = Len(last.data[1]) \div 2
        /\ \A i \in 0..(Len(last.patches) - 1) :
               /\ Len(last.patches[i + 1]) = 2 * Len(x_data)
               /\ last.patches[i + 1] = RibbonOutline(i)
        /\ args.data = last.data
        /\ last.intersection_points = <<>>

\* two overlapping ribbons over several k-vectors, emitted as they are
C11_Witness ==
    /\ Independent
    /\ Len(x_data) >= 2
    /\ Len(last.data[1]) = 4
    /\ Dips # {}
    /\ Len(last.patches) = 2

-----------------------------------------------------------------------------
(* Properties of plot_bands and _calc_corrected_x_values *)

\* the x-positions are those of the x-axis mode in use: cumulative k-distances
\* when the axis is corrected, the sample indices when it is not
ModeInUse ==
    IF x_axis_corrected
    THEN x_data \in {calc_corrected_x_values(k_data) : k_data \in KDatas \ {<<>>}}
    ELSE x_data = arange(Len(x_data))

\* C12: within one subplot, once a plot_bands call has plotted data
\* (self._x_data is set), no call but next_plot changes _x_axis_corrected,
\* whatever correct_x_axis and tick positions a later plot_bands call passes;
\* the later call plots at the x-positions of the mode already in use
C12_XAxisMode_Immutable ==
    [][(x_data # None /\ last'.op # "next_plot")
           => /\ x_axis_corrected' = x_axis_corrected
              /\ last'.op = "plot_bands" => ModeInUse']_vars

\* a later call was overridden on a corrected axis of uneven k-distances
C12_Witness ==
    /\ last.op = "plot_bands"
    /\ last.warned
    /\ x_axis_corrected
    /\ x_data # None
    /\ x_data # arange(Len(x_data))

\* _calc_corrected_x_values has returned x_data for the array args.data
DistancesComputed == last.op = "_calc_corrected_x_values"

\* the square of the distance between rows i and i + 1 of k_data, over the
\* kx-, ky- and kz-columns
SquaredStep(k_data, i) ==
    (k_data[i + 1][1] - k_data[i][1]) * (k_data[i + 1][1] - k_data[i][1])
    + (k_data[i + 1][2] - k_data[i][2]) * (k_data[i + 1][2] - k_data[i][2])
    + (k_data[i + 1][3] - k_data[i][3]) * (k_data[i + 1][3] - k_data[i][3])

\* the k-vectors of k_data, without the kmag column
Vectors(k_data) ==
    [i \in 1..Len(k_data) |-> <<k_data[i][1], k_data[i][2], k_data[i][3]>>]

\* C13: _calc_corrected_x_values returns as many x-values as k_data has
\* rows, x[0] = 0 and x[i] = x[i-1] + the distance between k[i-1] and k[i]
\* over the first three columns, whatever the kmag column holds, so x is
\* non-decreasing; for (0,0,0), (1,0,0), (1,1,0) it returns [0, 1, 2]
C13_CumulativeDistance ==
    DistancesComputed =>
        /\ Len(x_data) = Len(args.data)
        /\ x_data[1] = 0
        /\ \A i \in 1..(Len(x_data) - 1) :
               /\ x_data[i + 1] >= x_data[i]
               /\ (x_data[i + 1] - x_data[i]) * (x_data[i + 1] - x_data[i])
                      = SquaredStep(args.data, i)
        /\ Vectors(args.data) = <<<<0, 0, 0>>, <<1, 0, 0>>, <<1, 1, 0>>>>
               => x_data = <<0, 1, 2>>

\* the k-vectors of scenario B, with a kmag column that is not their length
C13_Witness ==
    /\ DistancesComputed
    /\ Vectors(args.data) = <<<<0, 0, 0>>, <<1, 0, 0>>, <<1, 1, 0>>>>
    /\ args.data[3][4] = 5
    /\ x_data = <<0, 1, 2>>

-----------------------------------------------------------------------------
(* The sweep of add_band_gap_rectangle, sample by sample *)

\* add_band_gap_rectangle swept a light line over the k-axis
LightLineSwept ==
    /\ GapCalled
    /\ ~gap_refused(last.from_freq, last.to_freq)
    /\ x_data # None
    /\ args.light_line # None

\* the sweep as it stands when the loop reaches sample i: the state after
\* the samples before i
SweepBefore(i) ==
    sweep(sweep_start(x_data, args.light_line, last.from_freq, last.to_freq),
          x_data, SubSeq(args.light_line, 1, i), last.from_freq, last.to_freq,
          1)

\* at sample i the sweep finds the light line no longer below: the previous
\* sample was at or under from_freq, this one is over it
OpensAt(i) ==
    /\ i < Len(x_data)
    /\ ~SweepBefore(i).raised
    /\ SweepBefore(i).below
    /\ ~is_below(LL(args.light_line, i), last.from_freq)

\* C14 as the specification states it: for every gap the guard accepts and
\* every light line, the point list is empty whenever the sweep finds a
\* transition from below to not below
C14_Opening_PointsEmpty ==
    LightLineSwept =>
        \A i \in 1..(Len(args.light_line) - 1) :
            OpensAt(i) => SweepBefore(i).points = <<>>

\* the same for the gaps with from_freq < to_freq
C14_OrderedGap_PointsEmpty ==
    (LightLineSwept /\ last.from_freq < last.to_freq) =>
        \A i \in 1..(Len(args.light_line) - 1) :
            OpensAt(i) => SweepBefore(i).points = <<>>

-----------------------------------------------------------------------------
(* The table and the intersection points of the overlap resolver *)

\* add_continuum_bands ran with overlap prevention on a table that fits
Resolved == WellFormedCalled /\ last.prevent_overlapping

Max(a, b) == IF a >= b THEN a ELSE b

\* the number of ribbons of the table
NumBands == Len(last.data[1]) \div 2

\* the samples
Samples == 0..(Len(last.data) - 1)

\* C15: after add_continuum_bands with prevent_overlapping=True on a table
\* that fits, the stored lower value of every ribbon b >= 1 at every sample
\* k is max(original lower_b[k], upper_(b-1)[k]), and every upper column and
\* ribbon 0's lower column are as they were
C15_Resolved_LowerIsMax ==
    Resolved =>
        /\ Len(args.data) = Len(last.data)
        /\ \A k \in Samples :
               /\ Len(args.data[k + 1]) = Len(last.data[k + 1])
               /\ D(args.data, k, 0) = D(last.data, k, 0)
               /\ \A b \in 0..(NumBands - 1) :
                      D(args.data, k, 2 * b + 1) = D(last.data, k, 2 * b + 1)
               /\ \A b \in 1..(NumBands - 1) :
                      D(args.data, k, 2 * b)
                          = Max(D(last.data, k, 2 * b),
                                D(last.data, k, 2 * b - 1))

\* three ribbons, the second and the third both clamped somewhere
C15_Witness ==
    /\ Resolved
    /\ NumBands = 3
    /\ \E k \in Samples : D(args.data, k, 2) > D(last.data, k, 2)
    /\ \E k \in Samples : D(args.data, k, 4) > D(last.data, k, 4)

\* ribbon b's lower curve is below ribbon b-1's upper curve at sample k, in
\* the table as the caller passed it
Overlapping(b, k) == D(last.data, k, 2 * b) < D(last.data, k, 2 * b - 1)

\* the samples k >= 1 at which ribbon b goes into or out of overlap
Transitions(b) ==
    {k \in Samples \ {0} : Overlapping(b, k) # Overlapping(b, k - 1)}

\* the elements of a set of numbers in ascending order
Ascending(S) ==
    CHOOSE s \in [1..Cardinality(S) -> S] :
        \A i \in 1..Cardinality(S), j \in 1..Cardinality(S) :
            i < j => s[i] < s[j]

\* the intersection points recorded for ribbon b, in the order recorded
PointsOf(b) == SelectSeq(last.intersection_points, LAMBDA e : e[1] = b)

\* ribbon b's lower curve and ribbon b-1's upper curve are not parallel
\* between samples k-1 and k
NotParallel(b, k) ==
    D(last.data, k, 2 * b) - D(last.data, k - 1, 2 * b)
        # D(last.data, k, 2 * b - 1) - D(last.data, k - 1, 2 * b - 1)

\* C16: the resolver records one intersection point for every transition
\* into or out of overlap detected at a sample k >= 1 and none else (none at
\* k = 0); the two segments it comes from are not parallel over (k-1, k) and
\* its fractional k-position lies in [k-1, k]
C16_Intersection_InInterval ==
    Resolved =>
        /\ \A j \in 1..Len(last.intersection_points) :
               last.intersection_points[j][1] \in 1..(NumBands - 1)
        /\ \A b \in 1..(NumBands - 1) :
               /\ Len(PointsOf(b)) = Cardinality(Transitions(b))
               /\ \A j \in 1..Len(PointsOf(b)) :
                      /\ NotParallel(b, Ascending(Transitions(b))[j])
                      /\ PointsOf(b)[j][2] # NaN
                      /\ RLeq(R(Ascending(Transitions(b))[j] - 1),
                              PointsOf(b)[j][2])
                      /\ RLeq(PointsOf(b)[j][2],
                              R(Ascending(Transitions(b))[j]))

\* a ribbon that goes into overlap and out of it again, one of the two
\* crossings strictly between two samples
C16_Witness ==
    /\ Resolved
    /\ \E b \in 1..(NumBands - 1) :
           /\ Len(PointsOf(b)) = 2
           /\ PointsOf(b)[2][2][1] > PointsOf(b)[2][2][2]
           /\ \E j \in 1..2 : PointsOf(b)[j][2][2] > 1

\* the lower boundary of the polygon emitted for ribbon i: what comes before
\* the walk back along the upper curve
LowerBoundary(i) ==
    SubSeq(last.patches[i + 1], 1, Len(last.patches[i + 1]) - Len(x_data))

\* the x-position of the fractional k-position ki between samples k-1 and k
Interpolated(ki, k) ==
    RAdd(R(X(x_data, k - 1)),
         RMul(RSub(ki, R(k - 1)), R(X(x_data, k) - X(x_data, k - 1))))

\* the vertices of the intersection points of ribbon i that lie at or after
\* sample k-1 and before sample k, in the order recorded
CrossingsBefore(i, k) ==
    LET due == SelectSeq(PointsOf(i),
                   LAMBDA e : RLeq(R(k - 1), e[2]) /\ RLess(e[2], R(k)))
    IN  [j \in 1..Len(due) |-> Pt(Interpolated(due[j][2], k), due[j][3])]

\* the lower boundary up to sample k: the stored lower values at the
\* samples, each preceded by the crossings of the interval before it
RECURSIVE SplicedLower(_, _)
SplicedLower(i, k) ==
    IF k < 0 THEN <<>>
    ELSE Append(SplicedLower(i, k - 1) \o CrossingsBefore(i, k),
                Pt(R(X(x_data, k)), R(D(args.data, k, 2 * i))))

\* the intersection points of ribbon i that lie before the last sample
PointsBeforeLast(i) ==
    SelectSeq(PointsOf(i), LAMBDA e : RLess(e[2], R(Len(x_data) - 1)))

\* the point e is a vertex of the polygon p, at its interpolated x-position
IsVertexOf(e, p) ==
    \E j \in 1..Len(p), k \in Samples \ {0} :
        /\ RLeq(R(k - 1), e[2]) /\ RLeq(e[2], R(k))
        /\ p[j] = Pt(Interpolated(e[2], k), e[3])

\* C17 as the specification states it: every intersection point recorded
\* for ribbon i is a vertex of ribbon i's polygon, which has 2*numk plus the
\* number of recorded points vertices, and the x-coordinates along the lower
\* boundary do not decrease
C17_EveryPoint_Spliced ==
    Resolved =>
        \A i \in 0..(NumBands - 1) :
            /\ Len(last.patches[i + 1])
                   = 2 * Len(x_data) + Len(PointsOf(i))
            /\ \A j \in 1..Len(PointsOf(i)) :
                   IsVertexOf(PointsOf(i)[j], LowerBoundary(i))
            /\ LeftToRight(LowerBoundary(i))

\* C17: with prevent_overlapping=True, every intersection point recorded
\* for ribbon i at a position before the last sample is inserted exactly
\* once in ribbon i's polygon and in no other: on the lower boundary,
\* directly before the vertex of the first sample after its position, at the
\* x-position interpolated between the two samples around it, several
\* points in the order recorded; a point recorded on the last sample itself
\* is not inserted; the polygon has 2*numk plus the number of inserted
\* points vertices and the x-coordinates along its lower boundary do not
\* decrease
C17_PointsBeforeLast_Spliced ==
    Resolved =>
        /\ Len(last.patches) = NumBands
        /\ \A i \in 0..(NumBands - 1) :
               /\ LowerBoundary(i) = SplicedLower(i, Len(x_data) - 1)
               /\ Len(last.patches[i + 1])
                      = 2 * Len(x_data) + Len(PointsBeforeLast(i))
               /\ LeftToRight(LowerBoundary(i))

\* three ribbons, a crossing spliced into the second and one into the third
C17_Witness ==
    /\ Resolved
    /\ NumBands = 3
    /\ Len(PointsBeforeLast(1)) > 0
    /\ Len(PointsBeforeLast(2)) > 0
    /\ Len(last.patches[2]) = 2 * Len(x_data) + Len(PointsBeforeLast(1))
    /\ Len(last.patches[3]) = 2 * Len(x_data) + Len(PointsBeforeLast(2))

\* every ribbon of the table has its lower value at or under its upper value
\* at every sample
ValidRibbons(data) ==
    \A k \in 0..(Len(data) - 1), b \in 0..(Len(data[1]) \div 2 - 1) :
        D(data, k, 2 * b) <= D(data, k, 2 * b + 1)

\* every ribbon reaches at least as high as the ribbon below it
OrderedTops(data) ==
    \A k \in 0..(Len(data) - 1), b \in 1..(Len(data[1]) \div 2 - 1) :
        D(data, k, 2 * b - 1) <= D(data, k, 2 * b + 1)

\* C18 as the specification states it: when every ribbon has lower <= upper
\* at every sample before add_continuum_bands with prevent_overlapping=True,
\* every ribbon has lower <= upper at every sample after it
C18_Clipping_KeepsRibbonsValid ==
    (Resolved /\ ValidRibbons(last.data)) => ValidRibbons(args.data)

\* the same for the stacks in which no ribbon ends under the top of the
\* ribbon below it
C18_OrderedTops_KeepsRibbonsValid ==
    (Resolved /\ ValidRibbons(last.data) /\ OrderedTops(last.data))
        => ValidRibbons(args.data)
=============================================================================
